---- MODULE Spec2Model ----
(***************************************************************************)
(* Catalogs of stars (Catalogs.py): the Catalog base class (addLCs,        *)
(* snapshot, atEpoch), the TestPattern grid, the UCAC4 survey query with   *)
(* its on-disk cache and band reconciliation, and the Trimmed subset.      *)
(*                                                                         *)
(* Numbers.  The code computes in floating point; the model computes in    *)
(* integers, in units that make every operation it performs exact:         *)
(*   angles (ra, dec)        degrees, at multiples of 60 where the cosine  *)
(*                           is rational (Sec below)                       *)
(*   proper motions          mas/yr, multiples of MasPerDeg                *)
(*   epochs                  1/1461 year  (365.25 days = 1461 quarter days)*)
(*   bjd, exptime            quarter days                                  *)
(*   magnitudes, kelvins     integers                                      *)
(*   a float that may be non-finite (a survey column): [fin, v], with      *)
(*   fin = FALSE for NaN (v = 0) and +inf (v = 1)                          *)
(* A numpy value is [nd, a]: nd = 1 an array with elements a, nd = 0 a     *)
(* scalar (shape ()) whose one value is a[1].                              *)
(***************************************************************************)
EXTENDS Integers, Sequences, FiniteSets, TLC

VARIABLES
    cat,      \* the catalog object the driver holds (NoCat before any construction)
    ret,      \* what the last call returned or raised
    rng,      \* the process-wide generator np.random
    cache,    \* settings.prefix + 'intermediates/': file name -> stored table
    queries,  \* file name -> the outcomes of the Vizier queries issued for it so far
    pf        \* harness of the pure-function specifications

vars == <<cat, ret, rng, cache, queries, pf>>

----------------------------------------------------------------------------
(* Bounds *)

MaxRows == 2        \* rows of a survey table of the survey driver
MaxBandLen == 2     \* stars in a band-reconciliation input

(* Program constants *)

MasPerDeg == 3600000          \* /60.0/60.0/1000.0
QuarterDaysPerYear == 1461    \* 365.25 days
BJD2000x4 == 9806178          \* 2451544.5 days
Year2000 == 2000
TestPatternEpoch == 2018
UCAC4Epoch == 2000
SunTemperature == 5800

----------------------------------------------------------------------------
(* numpy values *)

Arr(s) == [nd |-> 1, a |-> s]
Scalar(x) == [nd |-> 0, a |-> <<x>>]

\* x broadcast to n elements (x a scalar, an array of n, or an array of 1)
Bcast(x, n) == [i \in 1..n |-> IF Len(x.a) = 1 THEN x.a[1] ELSE x.a[i]]

\* the length of the result of an elementwise operation on x and y
BLen(x, y) ==
    IF x.nd = 0 THEN Len(y.a)
    ELSE IF y.nd = 0 THEN Len(x.a)
    ELSE IF Len(x.a) = 1 THEN Len(y.a)
    ELSE Len(x.a)

\* x[keep] for a boolean mask keep over x's axis
RECURSIVE MaskSeq(_, _)
MaskSeq(s, keep) ==
    IF s = <<>> THEN <<>>
    ELSE IF Head(keep) THEN <<Head(s)>> \o MaskSeq(Tail(s), Tail(keep))
    ELSE MaskSeq(Tail(s), Tail(keep))

\* x[keep] for a list of indices (0-based, as in the code)
TakeSeq(s, idx) == [i \in 1..Len(idx) |-> s[idx[i] + 1]]

\* keep.nonzero()[0] from position i on: the 0-based positions of the True entries
RECURSIVE Nonzero(_, _)
Nonzero(keep, i) ==
    IF i > Len(keep) THEN <<>>
    ELSE (IF keep[i] THEN <<i - 1>> ELSE <<>>) \o Nonzero(keep, i + 1)

RECURSIVE SeqMax(_)
SeqMax(s) == IF Len(s) = 1 THEN s[1]
             ELSE LET m == SeqMax(Tail(s)) IN IF s[1] > m THEN s[1] ELSE m

\* floats that may be non-finite
Fin(x) == [fin |-> TRUE, v |-> x]
NaN == [fin |-> FALSE, v |-> 0]
Inf == [fin |-> FALSE, v |-> 1]

\* a - b in IEEE arithmetic: inf - inf and anything with NaN are NaN
FSub(a, b) ==
    IF a.fin /\ b.fin THEN Fin(a.v - b.v)
    ELSE IF a = NaN \/ b = NaN THEN NaN
    ELSE IF a.fin THEN Inf      \* finite - inf: non-finite (sign not tracked)
    ELSE IF b.fin THEN a
    ELSE NaN

\* 1/cos(d degrees), at the multiples of 60 degrees
Sec(d) ==
    CASE d % 360 = 0   -> 1
      [] d % 360 = 60  -> 2
      [] d % 360 = 120 -> -2
      [] d % 360 = 180 -> -1
      [] d % 360 = 240 -> -2
      [] d % 360 = 300 -> 2

----------------------------------------------------------------------------
(* UCAC4.load, band reconciliation *)

\* dst[bad] = src[bad] with bad = (isfinite(dst) == False)*(isfinite(src))
FillFromAlt(dst, src) ==
    [i \in 1..Len(dst) |-> IF (~dst[i].fin) /\ src[i].fin THEN src[i] ELSE dst[i]]

ReconcileSwapped(rmag, jmag, vmag) ==
    LET r1 == FillFromAlt(rmag, jmag)
        r2 == FillFromAlt(r1, vmag)
        j1 == FillFromAlt(jmag, vmag)
        j2 == FillFromAlt(j1, r2)
        v1 == FillFromAlt(vmag, r2)
        v2 == FillFromAlt(v1, j2)
    IN [rmag |-> r2, jmag |-> j2, vmag |-> v2]

\* the six fill steps, in the code's order
Reconcile(rmag, jmag, vmag) ==
    LET r1 == FillFromAlt(rmag, vmag)
        r2 == FillFromAlt(r1, jmag)
        j1 == FillFromAlt(jmag, vmag)
        j2 == FillFromAlt(j1, r2)
        v1 == FillFromAlt(vmag, r2)
        v2 == FillFromAlt(v1, j2)
    IN [rmag |-> r2, jmag |-> j2, vmag |-> v2]

----------------------------------------------------------------------------
(* Catalog objects *)

None == [some |-> FALSE, v |-> 0]
Some(x) == [some |-> TRUE, v |-> x]

Absent == Arr(<<>>)    \* placeholder of an attribute that is not in __dict__

\* attrs is the set of attribute names in the object's __dict__; an attribute
\* that is not in it holds a placeholder
NoCat ==
    [kind |-> "none", attrs |-> {}, name |-> <<>>, table |-> <<>>,
     ra |-> Absent, dec |-> Absent, pmra |-> Absent,
     pmdec |-> Absent, tmag |-> Absent, temperature |-> Absent,
     lightcurves |-> Absent, epoch |-> 0]

\* the object Catalog.__init__ leaves for the subclass's load()
New(kind) == [NoCat EXCEPT !.kind = kind]

StaticAttrs == {"ra", "dec", "pmra", "pmdec", "tmag", "temperature", "epoch"}

Max2(a, b) == IF a > b THEN a ELSE b
Min2(a, b) == IF a < b THEN a ELSE b

\* what a call left behind: its name, "ok" or the exception it raised, its
\* arguments and its return value
Ret(op, status, args, val) == [op |-> op, status |-> status, args |-> args, val |-> val]

NoVal == <<>>

\* np.random: how it was last seeded, and whether it was drawn from since
Rng(src, seed, drawn) == [src |-> src, seed |-> seed, drawn |-> drawn]

----------------------------------------------------------------------------
(* TestPattern.load *)

ArcsecPerDeg == 3600

\* pixels = np.maximum(np.int(size/spacing), 1)
Pixels(kw) == Max2(kw.size \div kw.spacing, 1)

\* np.linspace(lo, hi, n)[i], 1-based
Linspace(lo, hi, n, i) == IF n = 1 THEN lo ELSE lo + ((i - 1) * (hi - lo)) \div (n - 1)

\* (np.arange(pixels)*spacing - mean)[idx]/3600.0, in degrees
GridOffset(kw, idx) ==
    (2 * idx * kw.spacing - (Pixels(kw) - 1) * kw.spacing) \div (2 * ArcsecPerDeg)

\* the non-random grid: tmag, dec, ra (star k of the flattened meshgrid, 1-based)
GridTmag(kw) ==
    LET n == Pixels(kw) * Pixels(kw)
        lo == Min2(kw.magnitudes[1], kw.magnitudes[2])
        hi == Max2(kw.magnitudes[1], kw.magnitudes[2])
    IN [k \in 1..n |-> Linspace(lo, hi, n, n + 1 - k)]

GridDec(kw) ==
    LET n == Pixels(kw) * Pixels(kw)
    IN [k \in 1..n |-> GridOffset(kw, (k - 1) \div Pixels(kw)) + kw.dec]

GridRa(kw) ==
    LET n == Pixels(kw) * Pixels(kw)
        dec == GridDec(kw)
    IN [k \in 1..n |-> GridOffset(kw, (k - 1) % Pixels(kw)) * Sec(dec[k]) + kw.ra]

\* values np.random.uniform(lo, hi) can return
UniformDraws(kw) ==
    LET lo == Min2(kw.magnitudes[1], kw.magnitudes[2])
        hi == Max2(kw.magnitudes[1], kw.magnitudes[2])
    IN {lo, (lo + hi) \div 2}

\* values nudge*(np.random.rand() - 0.5)/3600.0 can take, in degrees
NudgeDraws(kw) == {0 - (kw.nudge \div (2 * ArcsecPerDeg)), 0}

\* values np.random.normal(0, pm) can return
NormalDraws(kw) == {0 - kw.pm, kw.pm}

\* load draws from np.random
LoadDraws(kw) == kw.random \/ kw.pm > 0

\* 'testpattern_{0:.0f}to{1:.0f}'.format(np.min(magnitudes), np.max(magnitudes))
GridName(kw) ==
    <<Min2(kw.magnitudes[1], kw.magnitudes[2]), Max2(kw.magnitudes[1], kw.magnitudes[2])>>

\* self.pmra, self.pmdec = np.random.normal(0,pm,n), ... if pm > 0 else 0, 0
GridPm(kw, draw) == IF kw.pm > 0 THEN Arr(draw) ELSE Scalar(0)

\* the object self after load(), given what the generator returned: load sets
\* name, tmag, dec, ra, pmra, pmdec, epoch and temperature, and nothing else
TestPatternLoad(self, kw, mags, nudgedec, nudgera, drawra, drawdec) ==
    LET n == Pixels(kw) * Pixels(kw)
        dec0 == GridDec(kw)
        ra0 == GridRa(kw)
        ra == IF kw.random THEN [k \in 1..n |-> ra0[k] + nudgera[k]] ELSE ra0
    IN [self EXCEPT
        !.attrs = @ \cup StaticAttrs \cup {"name"},
        !.name = GridName(kw),
        !.tmag = Arr(IF kw.random THEN mags ELSE GridTmag(kw)),
        !.dec = Arr(IF kw.random THEN [k \in 1..n |-> dec0[k] + nudgedec[k]] ELSE dec0),
        !.ra = Arr(ra),
        !.pmra = GridPm(kw, drawra),
        !.pmdec = GridPm(kw, drawdec),
        !.epoch = TestPatternEpoch * QuarterDaysPerYear,
        !.temperature = Arr([k \in 1..Len(ra) |-> SunTemperature])]

Zeros(n) == [k \in 1..n |-> 0]

\* self.load(**kw), for the call named op
TestPatternLoadCall(self, op, kw) ==
    LET n == Pixels(kw) * Pixels(kw) IN
    /\ \E mags \in IF kw.random THEN [1..n -> UniformDraws(kw)] ELSE {Zeros(n)},
          nudgedec \in IF kw.random THEN [1..n -> NudgeDraws(kw)] ELSE {Zeros(n)},
          nudgera \in IF kw.random THEN [1..n -> NudgeDraws(kw)] ELSE {Zeros(n)},
          drawra \in IF kw.pm > 0 THEN [1..n -> NormalDraws(kw)] ELSE {Zeros(n)},
          drawdec \in IF kw.pm > 0 THEN [1..n -> NormalDraws(kw)] ELSE {Zeros(n)} :
            cat' = TestPatternLoad(self, kw, mags, nudgedec, nudgera, drawra, drawdec)
    /\ rng' = [rng EXCEPT !.drawn = @ \/ LoadDraws(kw)]
    /\ ret' = Ret(op, "ok", kw, NoVal)
    /\ UNCHANGED <<cache, queries, pf>>

\* cat = TestPattern(**kw)
NewTestPattern(kw) == TestPatternLoadCall(New("testpattern"), "TestPattern", kw)

\* cat.load(**kw) on a TestPattern that is already loaded
ReloadTestPattern(kw) ==
    /\ cat.kind = "testpattern"
    /\ TestPatternLoadCall(cat, "TestPattern.load", kw)

----------------------------------------------------------------------------
(* Catalog.atEpoch, Catalog.snapshot *)

\* timeelapsed*rate, in degrees: timeelapsed in 1/1461 year, rate in integer deg/yr
Elapsed(dt, rate) == (dt * rate) \div QuarterDaysPerYear

AtEpochStartDec(c, epoch) ==
    LET dt == epoch - c.epoch
        n == BLen(c.dec, c.pmdec)
        dec == Bcast(c.dec, n)
        ra == Bcast(c.ra, n)
        pmra == Bcast(c.pmra, n)
        pmdec == Bcast(c.pmdec, n)
        decrate == [i \in 1..n |-> pmdec[i] \div MasPerDeg]
        rarate == [i \in 1..n |-> (pmra[i] \div MasPerDeg) * Sec(dec[i])]
    IN [ra |-> Arr([i \in 1..n |-> ra[i] + Elapsed(dt, rarate[i])]),
        dec |-> Arr([i \in 1..n |-> dec[i] + Elapsed(dt, decrate[i])])]

\* (raindegrees, decindegrees) of self.atEpoch(epoch)
atEpoch(c, epoch) ==
    LET dt == epoch - c.epoch
        n == BLen(c.dec, c.pmdec)
        dec == Bcast(c.dec, n)
        ra == Bcast(c.ra, n)
        pmra == Bcast(c.pmra, n)
        pmdec == Bcast(c.pmdec, n)
        decrate == [i \in 1..n |-> pmdec[i] \div MasPerDeg]
        meandec == [i \in 1..n |-> dec[i] + Elapsed(dt, decrate[i]) \div 2]
        rarate == [i \in 1..n |-> (pmra[i] \div MasPerDeg) * Sec(meandec[i])]
    IN [ra |-> Arr([i \in 1..n |-> ra[i] + Elapsed(dt, rarate[i])]),
        dec |-> Arr([i \in 1..n |-> dec[i] + Elapsed(dt, decrate[i])])]

\* ra, dec = cat.atEpoch(epoch)
AtEpoch(epoch) ==
    /\ cat.kind # "none"
    /\ ret' = Ret("atEpoch", "ok", [epoch |-> epoch], atEpoch(cat, epoch))
    /\ UNCHANGED <<cat, rng, cache, queries, pf>>

\* epoch = (bjd - 2451544.5)/365.25 + 2000.0
EpochOfBjd(bjd) == (bjd - BJD2000x4) + Year2000 * QuarterDaysPerYear

\* bjd = (epoch - 2000.0)*365.25 + 2451544.5
BjdOfEpoch(epoch) == (epoch - Year2000 * QuarterDaysPerYear) + BJD2000x4

SnapshotEpochPreferGiven(bjd, epoch) == IF epoch.some THEN epoch.v ELSE EpochOfBjd(bjd.v)

\* the epoch snapshot propagates to: bjd decides when it is given
SnapshotEpoch(bjd, epoch) == IF bjd.some THEN EpochOfBjd(bjd.v) ELSE epoch.v

\* the bjd the light curves are integrated from
SnapshotBjd(bjd, epoch) == IF bjd.some THEN bjd.v ELSE BjdOfEpoch(epoch.v)

\* what lc.integrated(bjd, exptime) can return (Lightcurve is not in this file)
IntegratedValues(lc) == IF lc = "constant" THEN {0} ELSE {0 - 1, 1}

SnapshotMomentOne(c, offsets) ==
    IF "lightcurves" \in c.attrs THEN Arr(offsets) ELSE Arr(<<1>>)

\* moment: the integrated light curves, or np.array([0.0]) on AttributeError
SnapshotMoment(c, offsets) ==
    IF "lightcurves" \in c.attrs THEN Arr(offsets) ELSE Arr(<<0>>)

\* the length of self.tmag + moment for operands of n and m elements, -1 when
\* they cannot be broadcast together
SumLen(n, m) == IF n = m \/ m = 1 THEN n ELSE IF n = 1 THEN m ELSE 0 - 1

\* how the call ends: self.tmag + moment raises ValueError, the assertion
\* ra.shape == tmag.shape fails, or the snapshot is returned
SnapshotStatus(c, epoch, offsets) ==
    LET k == SumLen(Len(c.tmag.a), Len(SnapshotMoment(c, offsets).a))
    IN IF k < 0 THEN "ValueError"
       ELSE IF k # Len(atEpoch(c, epoch).ra.a) THEN "AssertionError"
       ELSE "ok"

\* the returned (ra, dec, tmag, temperature)
SnapshotValue(c, epoch, offsets) ==
    LET pos == atEpoch(c, epoch)
        moment == SnapshotMoment(c, offsets)
        n == BLen(c.tmag, moment)
        t == Bcast(c.tmag, n)
        m == Bcast(moment, n)
    IN [ra |-> pos.ra, dec |-> pos.dec,
        tmag |-> Arr([i \in 1..n |-> t[i] + m[i]]),
        temperature |-> c.temperature]

\* cat.snapshot(bjd=bjd, epoch=epoch, exptime=exptime); bjd and epoch may be None
Snapshot(bjd, epoch, exptime) ==
    /\ cat.kind # "none"
    /\ LET args == [bjd |-> bjd, epoch |-> epoch, exptime |-> exptime] IN
       IF (~bjd.some) /\ (~epoch.some)
       THEN \* (None - 2000.0) raises TypeError
            ret' = Ret("snapshot", "TypeError", args, NoVal)
       ELSE LET e == SnapshotEpoch(bjd, epoch)
                b == SnapshotBjd(bjd, epoch)
                n == Len(cat.lightcurves.a)
            IN \E offsets \in [1..n -> {0 - 1, 0, 1}] :
                /\ \A i \in 1..n : offsets[i] \in IntegratedValues(cat.lightcurves.a[i])
                /\ ret' = IF SnapshotStatus(cat, e, offsets) = "ok"
                          THEN Ret("snapshot", "ok", args,
                                   [epoch |-> e, bjd |-> b] @@ SnapshotValue(cat, e, offsets))
                          ELSE Ret("snapshot", SnapshotStatus(cat, e, offsets), args, NoVal)
    /\ UNCHANGED <<cat, rng, cache, queries, pf>>

----------------------------------------------------------------------------
(* Catalog.addLCs *)

FracDen == 2 * 2    \* fmax is num/FracDen; these fractions are exact floats

\* np.random.choice's size for len(brightenough)*fmax: the float is cast to an integer
ChoiceSizeRounded(nbright, num) == (2 * nbright * num + FracDen) \div (2 * FracDen)

ChoiceSize(nbright, num) == (nbright * num) \div FracDen

\* brightenough = (self.tmag <= magmax).nonzero()[0], as 1-based indices
BrightEnough(tmag, magmax) == {i \in 1..Len(tmag) : tmag[i] <= magmax}

AssignLCsPartial(n, chosen) == Arr([i \in 1..Cardinality(chosen) |-> "random"])

\* the light curves after the loop over the chosen stars
AssignLCs(n, chosen) == Arr([i \in 1..n |-> IF i \in chosen THEN "random" ELSE "constant"])

AddLCsTouchingTmag(c, lcs) ==
    [c EXCEPT !.lightcurves = lcs, !.attrs = @ \cup {"lightcurves"},
              !.tmag = Arr([i \in 1..Len(c.tmag.a) |-> 0])]

\* the catalog after addLCs assigned lcs
WithLCs(c, lcs) == [c EXCEPT !.lightcurves = lcs, !.attrs = @ \cup {"lightcurves"}]

\* np.random.choice(brightenough, size, replace=False) permutes the nbright
\* candidates: the shuffle takes one variate for each position but the last
ChoiceDraws(nbright) == nbright >= 2

\* whether the size calls of Lightcurve.random draw from np.random (the
\* factory is not in this file: either is possible when it is called)
FactoryDraws(size) == IF size = 0 THEN {FALSE} ELSE BOOLEAN

\* cat.addLCs(magmax=magmax, fmax=num/FracDen, seed=seed); magmax and seed may be None
AddLCs(magmax, num, seed) ==
    /\ cat.kind # "none"
    /\ LET args == [magmax |-> magmax, num |-> num, seed |-> seed]
           seeded == Rng(IF seed.some THEN "seed" ELSE "entropy", seed.v, FALSE)
           tmag == cat.tmag.a
           n == Len(tmag)
           reset == WithLCs(cat, AssignLCs(n, {}))
       IN
       IF (~magmax.some) /\ n = 0
       THEN \* np.max of an empty array raises
            /\ cat' = reset
            /\ rng' = seeded
            /\ ret' = Ret("addLCs", "ValueError", args, NoVal)
       ELSE LET mm == IF magmax.some THEN magmax.v ELSE SeqMax(tmag) + 1
                bright == BrightEnough(tmag, mm)
                size == ChoiceSize(Cardinality(bright), num)
            IN IF bright = {} \/ size > Cardinality(bright)
               THEN \* np.random.choice raises before it draws
                    /\ cat' = reset
                    /\ rng' = seeded
                    /\ ret' = Ret("addLCs", "ValueError", args, NoVal)
               ELSE \E chosen \in SUBSET bright, made \in FactoryDraws(size) :
                    /\ Cardinality(chosen) = size
                    /\ cat' = WithLCs(cat, AssignLCs(n, chosen))
                    /\ rng' = [seeded EXCEPT !.drawn = ChoiceDraws(Cardinality(bright)) \/ made]
                    /\ ret' = Ret("addLCs", "ok", args, NoVal)
    /\ UNCHANGED <<cache, queries, pf>>

----------------------------------------------------------------------------
(* Trimmed.__init__ *)

KeysToTransfer == <<"ra", "dec", "pmra", "pmdec", "tmag", "temperature", "lightcurves">>

\* inputcatalog.__dict__[k]
Attr(c, k) ==
    CASE k = "ra" -> c.ra
      [] k = "dec" -> c.dec
      [] k = "pmra" -> c.pmra
      [] k = "pmdec" -> c.pmdec
      [] k = "tmag" -> c.tmag
      [] k = "temperature" -> c.temperature
      [] k = "lightcurves" -> c.lightcurves

\* the positions keep selects: a boolean mask is applied as the positions of
\* its True entries, whatever its length
Positions(keep) == IF keep.kind = "mask" THEN Nonzero(keep.m, 1) ELSE keep.idx

\* x[keep]: keep is a boolean mask or a list of indices
Index(x, keep) == Arr(TakeSeq(x.a, Positions(keep)))

\* keep does not fit an array of len elements: a selected position is past the end
OutOfBounds(len, keep) == \E i \in 1..Len(Positions(keep)) : Positions(keep)[i] >= len

\* how inputcatalog.__dict__[k][keep] ends: KeyError for a missing key,
\* TypeError for a Python number, IndexError for a keep that does not fit
TransferError(c, k, keep) ==
    IF k \notin c.attrs THEN "KeyError"
    ELSE IF Attr(c, k).nd = 0 THEN "TypeError"
    ELSE IF OutOfBounds(Len(Attr(c, k).a), keep) THEN "IndexError"
    ELSE "ok"

\* the first key of keystotransfer whose transfer raises, 0 when none does
RECURSIVE FirstFailing(_, _, _)
FirstFailing(c, keep, i) ==
    IF i > Len(KeysToTransfer) THEN 0
    ELSE IF TransferError(c, KeysToTransfer[i], keep) # "ok" THEN i
    ELSE FirstFailing(c, keep, i + 1)

\* the Trimmed catalog, when every transfer succeeds
TrimmedCatalog(c, keep) ==
    [kind |-> "trimmed",
     attrs |-> StaticAttrs \cup {"lightcurves"},
     name |-> <<>>, table |-> <<>>,
     ra |-> Index(c.ra, keep), dec |-> Index(c.dec, keep),
     pmra |-> Index(c.pmra, keep), pmdec |-> Index(c.pmdec, keep),
     tmag |-> Index(c.tmag, keep), temperature |-> Index(c.temperature, keep),
     lightcurves |-> Index(c.lightcurves, keep),
     epoch |-> c.epoch]

\* Trimmed(cat, keep); the new catalog is the call's value
NewTrimmed(keep) ==
    /\ cat.kind # "none"
    /\ LET bad == FirstFailing(cat, keep, 1) IN
       ret' = IF bad = 0
              THEN Ret("Trimmed", "ok", [keep |-> keep], TrimmedCatalog(cat, keep))
              ELSE Ret("Trimmed", TransferError(cat, KeysToTransfer[bad], keep),
                       [keep |-> keep], NoVal)
    /\ UNCHANGED <<cat, rng, cache, queries, pf>>

----------------------------------------------------------------------------
(* UCAC4.load *)

NoTable == [some |-> FALSE, v |-> <<>>, saves |-> 0]

\* starsfilename: the catalog name and the formatted ra, dec and radius
StarsFileName(ra, dec, radius) == <<"UCAC4", ra, dec, radius>>

\* a row of the survey's answer: _RAJ2000, _DEJ2000, pmRA, pmDE, f.mag, Jmag, Vmag
Row(ra, dec, pmra, pmdec, rmag, jmag, vmag) ==
    [ra |-> ra, dec |-> dec, pmra |-> pmra, pmdec |-> pmdec,
     rmag |-> rmag, jmag |-> jmag, vmag |-> vmag]

Column(t, name) ==
    [i \in 1..Len(t) |->
        CASE name = "ra" -> t[i].ra
          [] name = "dec" -> t[i].dec
          [] name = "pmra" -> t[i].pmra
          [] name = "pmdec" -> t[i].pmdec
          [] name = "rmag" -> t[i].rmag
          [] name = "jmag" -> t[i].jmag
          [] name = "vmag" -> t[i].vmag]

\* relations.pickles and relations.davenport are outside this file: a colour
\* index goes to a temperature and to a magnitude correction, finite for a
\* finite colour
Pickles(color) == IF color.fin THEN Fin(SunTemperature - 100 * color.v) ELSE NaN
Davenport(color) == IF color.fin THEN Fin(color.v) ELSE NaN

\* pmra[np.isfinite(pmra) == False] = 0.0
ZeroNonFinite(col) == [i \in 1..Len(col) |-> IF col[i].fin THEN col[i] ELSE Fin(0)]

Values(col) == [i \in 1..Len(col) |-> col[i].v]

\* everything load computes from the table t
Reduced(t) ==
    LET m == Reconcile(Column(t, "rmag"), Column(t, "jmag"), Column(t, "vmag"))
        n == Len(t)
        color == [i \in 1..n |-> FSub(m.rmag[i], m.jmag[i])]
        temperatures == [i \in 1..n |-> Pickles(color[i])]
        imag == [i \in 1..n |-> FSub(m.rmag[i], Davenport(color[i]))]
    IN [ras |-> Column(t, "ra"), decs |-> Column(t, "dec"),
        pmra |-> ZeroNonFinite(Column(t, "pmra")),
        pmdec |-> ZeroNonFinite(Column(t, "pmdec")),
        imag |-> imag, temperatures |-> temperatures,
        ok |-> [i \in 1..n |-> imag[i].fin]]

\* self.table = astropy.table.Table(t)
WithTable(self, t) == [self EXCEPT !.table = t, !.attrs = @ \cup {"table"}]

\* the object self after load() went through with the table t (some star is
\* ok): load sets table, ra, dec, pmra, pmdec, tmag, temperature and epoch, and
\* nothing else
UCAC4Load(self, t) ==
    LET d == Reduced(t) IN
    [WithTable(self, t) EXCEPT
     !.attrs = @ \cup StaticAttrs,
     !.ra = Arr(MaskSeq(d.ras, d.ok)),
     !.dec = Arr(MaskSeq(d.decs, d.ok)),
     !.pmra = Arr(Values(MaskSeq(d.pmra, d.ok))),
     !.pmdec = Arr(Values(MaskSeq(d.pmdec, d.ok))),
     !.tmag = Arr(Values(MaskSeq(d.imag, d.ok))),
     !.temperature = Arr(Values(MaskSeq(d.temperatures, d.ok))),
     !.epoch = UCAC4Epoch * QuarterDaysPerYear]

\* what the call left behind, with whether it queried the survey
Queried(r, queried) == r @@ [queried |-> queried]

\* load() after the table t is in hand: np.min(rmag[ok]) raises when no star is
\* ok, after self.table was set; a constructor that raises leaves the caller
\* with the catalog it had
Finish(self, op, t, args, queried) ==
    IF \E i \in 1..Len(t) : Reduced(t).ok[i]
    THEN /\ cat' = UCAC4Load(self, t)
         /\ ret' = Queried(Ret(op, "ok", args, NoVal), queried)
    ELSE /\ cat' = IF op = "UCAC4" THEN cat ELSE WithTable(self, t)
         /\ ret' = Queried(Ret(op, "ValueError", args, NoVal), queried)

CacheHitNever(file) == FALSE

\* np.load(starsfilename) succeeds
CacheHit(file) == cache[file].some

\* self.load(ra=ra, dec=dec, radius=radius) for the call named op, with the
\* survey's answer to a query (were one issued): answered = FALSE is a query
\* that raises
UCAC4LoadCall(self, op, ra, dec, radius, answered, answer) ==
    LET file == StarsFileName(ra, dec, radius)
        args == [ra |-> ra, dec |-> dec, radius |-> radius]
    IN
    IF CacheHit(file)
    THEN /\ Finish(self, op, cache[file].v, args, FALSE)
         /\ UNCHANGED <<rng, cache, queries, pf>>
    ELSE /\ IF answered
            THEN /\ queries' = [queries EXCEPT ![file] = @ \cup {"answered"}]
                 /\ cache' = [cache EXCEPT ![file] =
                                 [some |-> TRUE, v |-> answer, saves |-> @.saves + 1]]
                 /\ Finish(self, op, answer, args, TRUE)
            ELSE /\ queries' = [queries EXCEPT ![file] = @ \cup {"raised"}]
                 /\ cache' = cache
                 /\ cat' = cat
                 /\ ret' = Queried(Ret(op, "QueryError", args, NoVal), TRUE)
         /\ UNCHANGED <<rng, pf>>

\* cat = UCAC4(ra=ra, dec=dec, radius=radius)
NewUCAC4(ra, dec, radius, answered, answer) ==
    UCAC4LoadCall(New("ucac4"), "UCAC4", ra, dec, radius, answered, answer)

\* cat.load(ra=ra, dec=dec, radius=radius) on a UCAC4 that is already loaded
ReloadUCAC4(ra, dec, radius, answered, answer) ==
    /\ cat.kind = "ucac4"
    /\ UCAC4LoadCall(cat, "UCAC4.load", ra, dec, radius, answered, answer)

----------------------------------------------------------------------------
(* Inputs *)

GridSpacing == 120 * ArcsecPerDeg   \* arcsec: grid offsets of +-60 degrees
PmUnit == 120 * MasPerDeg           \* mas/yr: 120 degrees a year

Kw(size, magnitudes, dec, random, pm) ==
    [size |-> size, spacing |-> GridSpacing, magnitudes |-> magnitudes, ra |-> 0,
     dec |-> dec, random |-> random, nudge |-> GridSpacing, pm |-> pm]

GridInputs ==
    { Kw(2 * GridSpacing, <<6, 12>>, 0, FALSE, 0),          \* 2 x 2 stars, pm = 0
      Kw(GridSpacing, <<16, 6>>, 60, TRUE, 0 - PmUnit),     \* 1 star, random, pm < 0
      Kw(GridSpacing \div 4, <<6, 16>>, 0, FALSE, PmUnit) } \* size < spacing, pm > 0

Years == {UCAC4Epoch, TestPatternEpoch + 1}
Epochs == {y * QuarterDaysPerYear : y \in Years}
Exptimes == {1}

\* (bjd, epoch) as given to snapshot
SnapshotInputs ==
    {<<None, None>>}
      \cup {<<Some(BjdOfEpoch((TestPatternEpoch + 1) * QuarterDaysPerYear)), None>>}
      \cup {<<None, Some(e)>> : e \in Epochs}
      \cup {<<Some(BjdOfEpoch(TestPatternEpoch * QuarterDaysPerYear)),
              Some(UCAC4Epoch * QuarterDaysPerYear)>>}

MagMaxes == {None, Some(5), Some(8)}
FracNums == {0, 3, 4, 5}
Seeds == {None, Some(7)}

\* the keeps within the bounds of a source of n stars
Keeps(n) ==
    {[kind |-> "mask", m |-> m, idx |-> <<>>] :
        m \in {[i \in 1..n |-> TRUE], [i \in 1..n |-> FALSE], [i \in 1..n |-> i % 2 = 0]}}
      \cup (IF n = 0 THEN {} ELSE {[kind |-> "index", m |-> <<>>, idx |-> <<n - 1, 0>>]})

\* the survey's rows
GoodRow == Row(0, 60, Fin(MasPerDeg), Fin(PmUnit), Fin(10), Fin(9), Fin(11))
PartialRow == Row(60, 0, NaN, Fin(0), NaN, Fin(8), NaN)
DarkRow == Row(120, 60, Fin(0), Inf, NaN, Inf, NaN)
RowPool == {GoodRow, PartialRow, DarkRow}

Tables == UNION {[1..n -> RowPool] : n \in 1..MaxRows}

Cones == {<<0, 60, 1>>, <<0, 60, 2>>}

\* what the survey may answer to the catalog driver over cone c
DriverTables(c) ==
    IF c[3] = 1 THEN {<<GoodRow, PartialRow>>} ELSE {<<PartialRow, DarkRow, GoodRow, GoodRow>>}

----------------------------------------------------------------------------
(* The driver: a program that constructs catalogs and calls their methods *)

PfIdle == [phase |-> "idle"]

Init ==
    /\ cat = NoCat
    /\ ret = Ret("none", "ok", NoVal, NoVal)
    /\ rng = Rng("default", 0, FALSE)
    /\ cache = [f \in {StarsFileName(c[1], c[2], c[3]) : c \in Cones} |-> NoTable]
    /\ queries = [f \in {StarsFileName(c[1], c[2], c[3]) : c \in Cones} |-> {}]
    /\ pf = PfIdle

MakeTestPattern == \E kw \in GridInputs : NewTestPattern(kw)
\* what the survey can answer to the construction over cone c: nothing is asked
\* of it when the cache file is there
Answers(c, tables) == IF CacheHit(StarsFileName(c[1], c[2], c[3])) THEN {<<>>} ELSE tables
Answered(c, outcomes) == IF CacheHit(StarsFileName(c[1], c[2], c[3])) THEN {TRUE} ELSE outcomes

MakeUCAC4 == \E c \in Cones :
                \E answered \in Answered(c, {TRUE}), answer \in Answers(c, DriverTables(c)) :
                    NewUCAC4(c[1], c[2], c[3], answered, answer)
CallLoadTestPattern == \E kw \in GridInputs : ReloadTestPattern(kw)
CallLoadUCAC4 == \E c \in Cones :
                    \E answered \in Answered(c, {TRUE}), answer \in Answers(c, DriverTables(c)) :
                        ReloadUCAC4(c[1], c[2], c[3], answered, answer)
CallAddLCs == \E magmax \in MagMaxes, num \in FracNums, seed \in Seeds :
                AddLCs(magmax, num, seed)
CallSnapshot == \E in \in SnapshotInputs, exptime \in Exptimes :
                Snapshot(in[1], in[2], exptime)
CallAtEpoch == \E epoch \in Epochs : AtEpoch(epoch)
MakeTrimmed == \E keep \in Keeps(Len(cat.tmag.a)) : NewTrimmed(keep)

Next ==
    \/ MakeTestPattern
    \/ MakeUCAC4
    \/ CallLoadTestPattern
    \/ CallLoadUCAC4
    \/ CallAddLCs
    \/ CallSnapshot
    \/ CallAtEpoch
    \/ MakeTrimmed

Spec == Init /\ [][Next]_vars

----------------------------------------------------------------------------
(* The survey driver: Survey Query constructions over several cones, with a
   survey that may fail to answer *)

MakeSurvey ==
    \E c \in Cones :
        \E answered \in Answered(c, BOOLEAN), answer \in Answers(c, Tables) :
            NewUCAC4(c[1], c[2], c[3], answered, answer)

LoadSurvey ==
    \E c \in Cones :
        \E answered \in Answered(c, BOOLEAN), answer \in Answers(c, Tables) :
            ReloadUCAC4(c[1], c[2], c[3], answered, answer)

NextSurvey == MakeSurvey \/ LoadSurvey

SpecSurvey == Init /\ [][NextSurvey]_vars

----------------------------------------------------------------------------
(* Band reconciliation on its own: every combination of finite and non-finite
   bands, for up to MaxBandLen stars *)

RmagValues == {NaN, Inf, Fin(4)}
JmagValues == {NaN, Inf, Fin(5)}
VmagValues == {NaN, Inf, Fin(6)}

InitBands ==
    /\ cat = NoCat
    /\ ret = Ret("none", "ok", NoVal, NoVal)
    /\ rng = Rng("default", 0, FALSE)
    /\ cache = [f \in {StarsFileName(c[1], c[2], c[3]) : c \in Cones} |-> NoTable]
    /\ queries = [f \in {StarsFileName(c[1], c[2], c[3]) : c \in Cones} |-> {}]
    /\ \E n \in 1..MaxBandLen :
         \E r \in [1..n -> RmagValues], j \in [1..n -> JmagValues], v \in [1..n -> VmagValues] :
            pf = [phase |-> "bands", rmag |-> r, jmag |-> j, vmag |-> v]

ApplyReconcile ==
    /\ pf.phase = "bands"
    /\ pf' = [phase |-> "reconciled", rmag |-> pf.rmag, jmag |-> pf.jmag, vmag |-> pf.vmag,
              out |-> Reconcile(pf.rmag, pf.jmag, pf.vmag)]
    /\ UNCHANGED <<cat, ret, rng, cache, queries>>

SpecBands == InitBands /\ [][ApplyReconcile]_vars

----------------------------------------------------------------------------
(* Position propagation on its own: a catalog propagated by dt, and the
   result (a catalog at the later epoch, with the same proper motions)
   propagated by -dt *)

MaxYears == 2

PropRa == {0, 60}
PropDec == {0, 60, 0 - 60}
PropPmra == {0, MasPerDeg, 0 - 60 * MasPerDeg}
PropPmdec == {0, PmUnit, 0 - PmUnit}
PropDt == {y * QuarterDaysPerYear : y \in ((0 - MaxYears)..MaxYears) \ {0}}

OneStar(ra, dec, pmra, pmdec, epoch) ==
    [NoCat EXCEPT !.kind = "ucac4", !.attrs = StaticAttrs,
                  !.ra = Arr(<<ra>>), !.dec = Arr(<<dec>>),
                  !.pmra = Arr(<<pmra>>), !.pmdec = Arr(<<pmdec>>),
                  !.tmag = Arr(<<10>>), !.temperature = Arr(<<SunTemperature>>),
                  !.epoch = epoch]

InitProp ==
    /\ cat = NoCat
    /\ ret = Ret("none", "ok", NoVal, NoVal)
    /\ rng = Rng("default", 0, FALSE)
    /\ cache = [f \in {StarsFileName(c[1], c[2], c[3]) : c \in Cones} |-> NoTable]
    /\ queries = [f \in {StarsFileName(c[1], c[2], c[3]) : c \in Cones} |-> {}]
    /\ \E ra \in PropRa, dec \in PropDec, pmra \in PropPmra, pmdec \in PropPmdec, dt \in PropDt :
         pf = [phase |-> "start", dt |-> dt,
               c |-> OneStar(ra, dec, pmra, pmdec, UCAC4Epoch * QuarterDaysPerYear)]

Forward ==
    /\ pf.phase = "start"
    /\ pf' = [phase |-> "forward", dt |-> pf.dt, c |-> pf.c,
              there |-> atEpoch(pf.c, pf.c.epoch + pf.dt)]
    /\ UNCHANGED <<cat, ret, rng, cache, queries>>

Backward ==
    /\ pf.phase = "forward"
    /\ LET moved == [pf.c EXCEPT !.ra = pf.there.ra, !.dec = pf.there.dec,
                                 !.epoch = pf.c.epoch + pf.dt]
       IN pf' = [phase |-> "back", dt |-> pf.dt, c |-> pf.c, there |-> pf.there,
                 back |-> atEpoch(moved, moved.epoch - pf.dt)]
    /\ UNCHANGED <<cat, ret, rng, cache, queries>>

NextProp == Forward \/ Backward

SpecProp == InitProp /\ [][NextProp]_vars

----------------------------------------------------------------------------
(* Claims *)

AllNonFinite(i) == (~pf.rmag[i].fin) /\ (~pf.jmag[i].fin) /\ (~pf.vmag[i].fin)

\* C1: after the six fill steps, a star with at least one finite band has all
\* three bands finite, each band that was finite keeps its value, and a filled
\* band takes its value by precedence (primary from alternate-2 before
\* alternate-1, alternate-1 from alternate-2 before primary, alternate-2 from
\* primary before alternate-1); a star with no finite band is left as it was.
C1_Reconciled ==
    pf.phase = "reconciled" =>
        /\ Len(pf.out.rmag) = Len(pf.rmag)
        /\ Len(pf.out.jmag) = Len(pf.rmag)
        /\ Len(pf.out.vmag) = Len(pf.rmag)
        /\ \A i \in 1..Len(pf.rmag) :
            LET r == pf.rmag[i]
                j == pf.jmag[i]
                v == pf.vmag[i]
            IN IF AllNonFinite(i)
               THEN /\ pf.out.rmag[i] = r
                    /\ pf.out.jmag[i] = j
                    /\ pf.out.vmag[i] = v
               ELSE /\ pf.out.rmag[i].fin /\ pf.out.jmag[i].fin /\ pf.out.vmag[i].fin
                    /\ pf.out.rmag[i] = (IF r.fin THEN r ELSE IF v.fin THEN v ELSE j)
                    /\ pf.out.jmag[i] = (IF j.fin THEN j ELSE IF v.fin THEN v ELSE r)
                    /\ pf.out.vmag[i] = (IF v.fin THEN v ELSE IF r.fin THEN r ELSE j)

\* C1's case: primary NaN, alternate-1 finite, alternate-2 NaN resolves to the
\* alternate-1 value in all three bands, beside a star that stays non-finite
C1_Witness ==
    /\ pf.phase = "reconciled"
    /\ Len(pf.rmag) = 2
    /\ pf.rmag[1] = NaN /\ pf.jmag[1] = Fin(5) /\ pf.vmag[1] = NaN
    /\ pf.out.rmag[1] = Fin(5) /\ pf.out.vmag[1] = Fin(5)
    /\ AllNonFinite(2) /\ ~pf.out.rmag[2].fin

\* the stars of the catalog holding a non-constant light curve
Variable == {i \in 1..Len(cat.lightcurves.a) : cat.lightcurves.a[i] # "constant"}

\* the eligible set of the last addLCs call
Eligible ==
    LET mm == IF ret.args.magmax.some THEN ret.args.magmax.v ELSE SeqMax(cat.tmag.a) + 1
    IN {i \in 1..Len(cat.tmag.a) : cat.tmag.a[i] <= mm}

\* round(x/FracDen): the nearest integer, a half going either way
RoundFrac(x) ==
    IF (2 * x) % FracDen = 0 /\ x % FracDen # 0
    THEN {x \div FracDen, x \div FracDen + 1}
    ELSE {(2 * x + FracDen) \div (2 * FracDen)}

\* C2 as claimed: after addLCs, exactly round(fraction * |E|) stars hold a
\* non-constant handle, all of them eligible, and every other star the constant one.
C2_Rounded ==
    (ret.op = "addLCs" /\ ret.args.num <= FracDen) =>
        /\ Len(cat.lightcurves.a) = Len(cat.tmag.a)
        /\ Variable \subseteq Eligible
        /\ Cardinality(Variable) \in RoundFrac(Cardinality(Eligible) * ret.args.num)

\* C2, amended: after every addLCs call with 0 <= fraction <= 1, exactly
\* floor(fraction * |E|) stars hold a non-constant handle (the size is
\* truncated, not rounded), all of them eligible, and every other star holds the
\* constant handle; a call with fraction > 1 does the same when
\* floor(fraction * |E|) <= |E|, and otherwise raises and leaves every star constant.
C2_Truncated ==
    ret.op = "addLCs" =>
        /\ "lightcurves" \in cat.attrs
        /\ Len(cat.lightcurves.a) = Len(cat.tmag.a)
        /\ Variable \subseteq Eligible
        /\ \A i \in 1..Len(cat.tmag.a) : cat.lightcurves.a[i] \in {"constant", "random"}
        /\ LET k == (Cardinality(Eligible) * ret.args.num) \div FracDen
           IN Cardinality(Variable) = (IF k <= Cardinality(Eligible) THEN k ELSE 0)
        /\ (ret.args.num = FracDen => Variable = Eligible)
        /\ (ret.args.num = 0 => Variable = {})

\* C2's case: a second addLCs call, fraction 3/4 of two eligible stars among
\* four: one star is variable (rounding would give two)
C2_Witness ==
    /\ ret.op = "addLCs" /\ ret.status = "ok"
    /\ ret.args.num = 3
    /\ Len(cat.tmag.a) = 4
    /\ Cardinality(Eligible) = 2
    /\ Cardinality(Variable) = 1

\* C3 as claimed: for any loaded source and any keep within bounds, the
\* Subset construction succeeds and yields the kept stars' attributes and the
\* source's epoch.
C3_SubsetSucceeds ==
    ret.op = "Trimmed" =>
        /\ ret.status = "ok"
        /\ ret.val.epoch = cat.epoch
        /\ LET kept == IF ret.args.keep.kind = "mask"
                       THEN MaskSeq([i \in 1..Len(cat.tmag.a) |-> i], ret.args.keep.m)
                       ELSE [i \in 1..Len(ret.args.keep.idx) |-> ret.args.keep.idx[i] + 1]
           IN /\ Len(ret.val.ra.a) = Len(kept)
              /\ \A i \in 1..Len(kept) :
                    /\ ret.val.ra.a[i] = cat.ra.a[kept[i]]
                    /\ ret.val.dec.a[i] = cat.dec.a[kept[i]]
                    /\ ret.val.pmra.a[i] = cat.pmra.a[kept[i]]
                    /\ ret.val.pmdec.a[i] = cat.pmdec.a[kept[i]]
                    /\ ret.val.tmag.a[i] = cat.tmag.a[kept[i]]
                    /\ ret.val.temperature.a[i] = cat.temperature.a[kept[i]]

\* the file of the load that just ended
LastFile == StarsFileName(ret'.args.ra, ret'.args.dec, ret'.args.radius)

\* the calls that run UCAC4.load: the constructor, and load() on a loaded catalog
SurveyLoads == {"UCAC4", "UCAC4.load"}

\* C4 as claimed: a construction on a cache hit issues no query; one on a miss
\* issues exactly one query and stores the result; a stored entry is never
\* rewritten; so the survey is queried at most once per cache key.
C4_AtMostOnce ==
    [][ret'.op \in SurveyLoads =>
        /\ (cache[LastFile].some =>
               (~ret'.queried) /\ queries' = queries /\ cache' = cache)
        /\ ((~cache[LastFile].some) =>
               /\ ret'.queried
               /\ (ret'.status # "QueryError" => cache'[LastFile].some))
        /\ \A f \in DOMAIN cache : cache[f].some => cache'[f] = cache[f]
        /\ (ret'.queried => queries[LastFile] = {})]_vars

\* C4, amended: a construction on a cache hit issues no query and writes
\* nothing; one on a miss issues exactly one query and, if the survey answers,
\* stores the answer under that key (one write) before the catalog is built; if
\* the query raises, nothing is stored and the next construction with that key
\* queries again.  A stored entry is never rewritten, and no query is issued
\* for a key once a query for it was answered.
C4_OncePerStoredKey ==
    [][ret'.op \in SurveyLoads =>
        /\ (cache[LastFile].some =>
               (~ret'.queried) /\ queries' = queries /\ cache' = cache)
        /\ ((~cache[LastFile].some) =>
               /\ ret'.queried
               /\ IF ret'.status = "QueryError"
                  THEN /\ cache' = cache
                       /\ queries'[LastFile] = queries[LastFile] \cup {"raised"}
                  ELSE /\ cache'[LastFile].some /\ cache'[LastFile].saves = 1
                       /\ queries'[LastFile] = queries[LastFile] \cup {"answered"})
        /\ \A f \in DOMAIN cache :
              /\ (f # LastFile => cache'[f] = cache[f] /\ queries'[f] = queries[f])
              /\ (cache[f].some => cache'[f] = cache[f] /\ queries'[f] = queries[f])
        /\ (ret'.queried => "answered" \notin queries[LastFile])
        /\ (ret'.status = "ok" =>
               cat' = UCAC4Load(IF ret'.op = "UCAC4" THEN New("ucac4") ELSE cat,
                                cache'[LastFile].v))]_vars

\* C4's case: a key whose first query raised and whose second was answered
\* and stored, and a catalog built from the stored table
C4_Witness ==
    /\ ret.op \in SurveyLoads /\ ret.status = "ok"
    /\ LET f == StarsFileName(ret.args.ra, ret.args.dec, ret.args.radius)
       IN /\ cache[f].some /\ cache[f].saves = 1
          /\ queries[f] = {"raised", "answered"}
          /\ cat.table = cache[f].v

SnapshotGiven == ret.op = "snapshot"

\* C5 as claimed: snapshot with neither or both of bjd and epoch is rejected;
\* with exactly one it derives the other and returns the snapshot.
C5_ExactlyOne ==
    SnapshotGiven =>
        IF ret.args.bjd.some # ret.args.epoch.some
        THEN /\ ret.status = "ok"
             /\ ret.val.epoch - Year2000 * QuarterDaysPerYear = ret.val.bjd - BJD2000x4
        ELSE ret.status # "ok" /\ ret.val = NoVal

\* the number of offsets snapshot adds to tmag: one per handle, one 0.0 when
\* the catalog has no lightcurves
Moments == IF "lightcurves" \in cat.attrs THEN Len(cat.lightcurves.a) ELSE 1

\* C5, amended: a call that supplies neither is rejected (a TypeError raised
\* inside the call) and returns no snapshot; a call that supplies bjd, with or
\* without epoch, derives epoch = (bjd - 2451544.5)/365.25 + 2000.0 and
\* ignores any epoch given; a call that supplies only epoch derives bjd by the
\* inverse relation; both return (ra, dec, tmag, temperature) at that epoch,
\* unless the catalog holds light curves that are neither one per star nor a
\* single one (handles kept through a later load()): then the call raises.
C5_BjdDecides ==
    SnapshotGiven =>
        IF (~ret.args.bjd.some) /\ (~ret.args.epoch.some)
        THEN ret.status = "TypeError" /\ ret.val = NoVal
        ELSE IF Moments \notin {1, Len(cat.tmag.a)}
        THEN ret.status \in {"AssertionError", "ValueError"} /\ ret.val = NoVal
        ELSE /\ ret.status = "ok"
             /\ ret.val.epoch - Year2000 * QuarterDaysPerYear = ret.val.bjd - BJD2000x4
             /\ (ret.args.bjd.some => ret.val.bjd = ret.args.bjd.v)
             /\ ((~ret.args.bjd.some) => ret.val.epoch = ret.args.epoch.v)
             /\ ret.val.ra = atEpoch(cat, ret.val.epoch).ra
             /\ ret.val.dec = atEpoch(cat, ret.val.epoch).dec

\* C5's case: both given, and the snapshot is at the epoch derived from bjd,
\* not at the epoch given
C5_Witness ==
    /\ SnapshotGiven /\ ret.status = "ok"
    /\ ret.args.bjd.some /\ ret.args.epoch.some
    /\ ret.val.epoch # ret.args.epoch.v
    /\ ret.val.bjd = ret.args.bjd.v

\* no light curve is assigned, or every star has a handle and it is the constant one
AllConstant ==
    \/ "lightcurves" \notin cat.attrs
    \/ /\ Len(cat.lightcurves.a) = Len(cat.tmag.a)
       /\ \A i \in 1..Len(cat.lightcurves.a) : cat.lightcurves.a[i] = "constant"

\* C6: when no light curve is assigned or every star's handle is the constant
\* one, a snapshot at any bjd/epoch returns: its tmag equals the static tmag
\* element by element, has the length of the returned ra, and the temperature
\* is returned unmodified.
C6_StaticBrightness ==
    (SnapshotGiven /\ (ret.args.bjd.some \/ ret.args.epoch.some) /\ AllConstant) =>
        /\ ret.status = "ok"
        /\ ret.val.tmag = cat.tmag
        /\ ret.val.tmag.nd = 1 /\ ret.val.ra.nd = 1
        /\ Len(ret.val.tmag.a) = Len(ret.val.ra.a)
        /\ ret.val.temperature = cat.temperature

\* C6's case: a snapshot of four stars that addLCs left on the constant handle
C6_Witness ==
    /\ SnapshotGiven /\ ret.status = "ok"
    /\ "lightcurves" \in cat.attrs
    /\ Len(cat.lightcurves.a) = 4 /\ Len(cat.tmag.a) = 4
    /\ AllConstant
    /\ ret.val.tmag = cat.tmag

\* C7: propagating by dt and then by -dt, with the same proper motions,
\* returns the original position.
C7_RoundTrip ==
    pf.phase = "back" => (pf.back.ra = pf.c.ra /\ pf.back.dec = pf.c.dec)

\* C7's case: a star moving in both coordinates, whose declination (and so the
\* cosine at its ends) changed on the way
C7_Witness ==
    /\ pf.phase = "back"
    /\ pf.c.pmra.a[1] # 0 /\ pf.c.pmdec.a[1] # 0
    /\ Sec(pf.there.dec.a[1]) # Sec(pf.c.dec.a[1])
    /\ pf.there.ra # pf.c.ra
    /\ pf.back.ra = pf.c.ra

IsArrayOf(x, n) == x.nd = 1 /\ Len(x.a) = n

\* C8 as claimed: in every state after load() of any variant, ra, dec, pmra,
\* pmdec, tmag and temperature are arrays of the same length N.
C8_EqualLengths ==
    cat.kind # "none" =>
        LET n == Len(cat.tmag.a)
        IN /\ IsArrayOf(cat.ra, n) /\ IsArrayOf(cat.dec, n)
           /\ IsArrayOf(cat.pmra, n) /\ IsArrayOf(cat.pmdec, n)
           /\ IsArrayOf(cat.tmag, n) /\ IsArrayOf(cat.temperature, n)

\* C9 as claimed: once load() completes the catalog's lightcurves exists and
\* holds one handle per star.
C9_AlwaysPopulated ==
    cat.kind # "none" =>
        ("lightcurves" \in cat.attrs /\ IsArrayOf(cat.lightcurves, Len(cat.tmag.a)))

Constructions == {"TestPattern", "UCAC4"}

\* C9, amended: once the load() of a construction completes the catalog has no
\* lightcurves attribute; addLCs creates it, with exactly one handle per star,
\* never a handle for only some of the stars; no other call touches it, so
\* load() called again on a catalog that has light curves keeps the handles it
\* had, whatever the number of stars it loads.
C9_PopulatedByAddLCs ==
    [][/\ ((ret'.op \in Constructions /\ ret'.status = "ok") =>
              "lightcurves" \notin cat'.attrs)
       /\ (ret'.op = "addLCs" =>
              /\ "lightcurves" \in cat'.attrs
              /\ IsArrayOf(cat'.lightcurves, Len(cat'.tmag.a))
              /\ \A i \in 1..Len(cat'.tmag.a) :
                    cat'.lightcurves.a[i] \in {"constant", "random"})
       /\ (ret'.op \notin (Constructions \cup {"addLCs"}) =>
              /\ cat'.lightcurves = cat.lightcurves
              /\ ("lightcurves" \in cat'.attrs) = ("lightcurves" \in cat.attrs))]_vars

\* C9's case: a survey catalog of two stars after addLCs gave one of them a
\* random light curve
C9_Witness ==
    /\ cat.kind = "ucac4"
    /\ "lightcurves" \in cat.attrs
    /\ Len(cat.tmag.a) = 2
    /\ Cardinality(Variable) = 1

StaticUnchanged ==
    /\ cat'.ra = cat.ra /\ cat'.dec = cat.dec
    /\ cat'.pmra = cat.pmra /\ cat'.pmdec = cat.pmdec
    /\ cat'.tmag = cat.tmag /\ cat'.temperature = cat.temperature
    /\ cat'.epoch = cat.epoch /\ cat'.kind = cat.kind
    /\ cat'.name = cat.name /\ cat'.table = cat.table
    /\ cache' = cache /\ queries' = queries

\* C10 as claimed: addLCs changes only the catalog's lightcurves; every other
\* attribute and the process-wide random generator are as before.
C10_OnlyLightcurves ==
    [][ret'.op = "addLCs" => (StaticUnchanged /\ rng' = rng)]_vars

\* C10, amended: addLCs changes the catalog's lightcurves and no other
\* attribute of the catalog, and it reseeds the process-wide generator
\* np.random with its seed (from the system's entropy when seed is None); it
\* then draws the subset from that generator whenever at least two stars are
\* eligible, and leaves it as seeded when the call raises or when one star is
\* eligible and none is chosen.
C10_LightcurvesAndGenerator ==
    [][ret'.op = "addLCs" =>
        /\ StaticUnchanged
        /\ cat'.attrs = cat.attrs \cup {"lightcurves"}
        /\ rng'.src = (IF ret'.args.seed.some THEN "seed" ELSE "entropy")
        /\ rng'.seed = ret'.args.seed.v
        /\ ((ret'.status = "ok" /\ Cardinality(Eligible') >= 2) => rng'.drawn)
        /\ (rng'.drawn =>
               /\ ret'.status = "ok"
               /\ (Cardinality(Eligible') >= 2 \/ Variable' # {}))]_vars

\* C10's case: addLCs(seed=7) on the four-star grid, after which the
\* process-wide generator is the one seeded with 7 and drawn from
C10_Witness ==
    /\ ret.op = "addLCs" /\ ret.status = "ok"
    /\ cat.kind = "testpattern" /\ Len(cat.tmag.a) = 4
    /\ Cardinality(Eligible) = 2
    /\ rng = Rng("seed", 7, TRUE)
    /\ Variable # {}

====
